---------------------------- MODULE Spec2Model ----------------------------
(***************************************************************************)
(* Model of the traversal-and-matching engine of walk.c: the recursive     *)
(* directory walker search_directory, the per-file scanner search_file,    *)
(* the matchers strstr / strstr_case / matches_pattern, and the statistics *)
(* accumulator SearchStats.                                                *)
(*                                                                         *)
(* C strings are sequences of one-character strings without the            *)
(* terminating NUL; reading past the end yields NUL.                       *)
(***************************************************************************)
EXTENDS Integers, Sequences, FiniteSets, TLC

VARIABLES
    opts,     \* SearchOptions, read-only after parse_arguments
    fs,       \* the file system the walk runs on (fixed during a walk)
    stats,    \* SearchStats
    out,      \* the lines search_file has written to stdout, in order
    stack,    \* active search_directory invocations, innermost last
    sf,       \* the active search_file invocation, or NoCall
    pc,       \* position of main: "start", "walk", "done"
    log,      \* history: one summary per finished search_file invocation
    dlog,     \* history: one summary per finished search_directory invocation
    hist      \* history: handle counters and handle misuse flag

vars == <<opts, fs, stats, out, stack, sf, pc, log, dlog, hist>>

-----------------------------------------------------------------------------
(* Program constants *)

MAX_PATH == 4096
MAX_LINE == 2048

(* Bounds of the model *)

\* the directory tree is a chain of directories of depth 0..TreeDepth
TreeDepth == 2
\* the max_depth option ranges over -1..MaxDepthOpt
MaxDepthOpt == 1
\* the value of min_size and of max_size when the option is given
SizeLimit == 3

-----------------------------------------------------------------------------
(* Characters and C strings *)

NUL == "NUL"
NL == "\n"

Min(S) == CHOOSE x \in S : \A y \in S : x <= y

\* value of a character as unsigned char
Code(c) ==
    CASE c = NUL -> 0
      [] c = NL  -> 10
      [] c = "*" -> 42
      [] c = "." -> 46
      [] c = "/" -> 47
      [] c = "A" -> 65
      [] c = "B" -> 66
      [] c = "C" -> 67
      [] c = "a" -> 97
      [] c = "b" -> 98
      [] c = "c" -> 99
      [] c = "d" -> 100
      [] c = "l" -> 108
      [] c = "p" -> 112
      [] c = "x" -> 120

\* tolower((unsigned char)c)
tolower(c) == IF Code(c) >= 65 /\ Code(c) <= 90 THEN Code(c) + 32 ELSE Code(c)

\* s[i] of a C string (1-based), NUL at and past the terminator
At(s, i) == IF i >= 1 /\ i <= Len(s) THEN s[i] ELSE NUL

\* the C string starting at position i of s
From(s, i) == SubSeq(s, i, Len(s))

RECURSIVE strcasecmp_loop(_, _, _)
strcasecmp_loop(s1, s2, i) ==
    IF At(s1, i) # NUL /\ At(s2, i) # NUL
    THEN IF tolower(At(s1, i)) # tolower(At(s2, i))
         THEN tolower(At(s1, i)) - tolower(At(s2, i))
         ELSE strcasecmp_loop(s1, s2, i + 1)
    ELSE tolower(At(s1, i)) - tolower(At(s2, i))

strcasecmp_safe(s1, s2) == strcasecmp_loop(s1, s2, 1)

\* strstr of libc: position (1-based) of the first occurrence of needle in
\* haystack, 0 for NULL; an empty needle is found at the start of haystack
strstr(haystack, needle) ==
    LET hits == {i \in 1..(Len(haystack) - Len(needle) + 1) :
                    SubSeq(haystack, i, i + Len(needle) - 1) = needle}
    IN  IF needle = <<>> THEN 1
        ELSE IF hits = {} THEN 0 ELSE Min(hits)

\* strstr_case: as strstr, comparing characters after tolower; NULL for an
\* empty needle
strstr_case(haystack, needle) ==
    LET hits == {i \in 1..Len(haystack) :
                    \A j \in 1..Len(needle) :
                        /\ At(haystack, i + j - 1) # NUL
                        /\ tolower(At(haystack, i + j - 1)) = tolower(needle[j])}
    IN  IF needle = <<>> THEN 0
        ELSE IF hits = {} THEN 0 ELSE Min(hits)

\* strrchr(s, c): position of the last c in s, 0 for NULL
strrchr(s, c) ==
    LET hits == {i \in 1..Len(s) : s[i] = c}
    IN  IF hits = {} THEN 0 ELSE CHOOSE i \in hits : \A j \in hits : j <= i

\* basename = strrchr(filename, '/'); basename = basename ? basename + 1 : filename
Basename(filename) ==
    IF strrchr(filename, "/") # 0
    THEN From(filename, strrchr(filename, "/") + 1)
    ELSE filename

matches_pattern(filename, pattern) ==
    IF At(pattern, 1) = NUL THEN TRUE
    ELSE IF At(pattern, 1) = "*" /\ At(pattern, 2) = "."
         THEN LET ext == strrchr(Basename(filename), ".")
              IN  IF ext = 0 THEN FALSE
                  ELSE strcasecmp_safe(From(Basename(filename), ext + 1),
                                       From(pattern, 3)) = 0
         ELSE strcasecmp_safe(Basename(filename), pattern) = 0

\* the keyword test of search_file, lines 255-259 and 294-298
KeywordFound(text, keyword) ==
    IF opts.case_sensitive
    THEN strstr(text, keyword) # 0
    ELSE strstr_case(text, keyword) # 0

\* fgets(line, MAX_LINE, file) at offset pos of a file with the given bytes:
\* the number of bytes read, 0 for NULL (end of file)
fgets_len(bytes, pos) ==
    LET n == IF Len(bytes) - pos < MAX_LINE - 1 THEN Len(bytes) - pos
             ELSE MAX_LINE - 1
        nls == {i \in 1..n : bytes[pos + i] = NL}
    IN  IF nls = {} THEN n ELSE Min(nls)

\* line[strcspn(line, "\n")] = '\0'
StripNewline(line) ==
    LET nls == {i \in 1..Len(line) : line[i] = NL}
    IN  IF nls = {} THEN line ELSE SubSeq(line, 1, Min(nls) - 1)

-----------------------------------------------------------------------------
(* Output written by printf *)

Digit(d) == CASE d = 0 -> "0" [] d = 1 -> "1" [] d = 2 -> "2" [] d = 3 -> "3"
              [] d = 4 -> "4" [] d = 5 -> "5" [] d = 6 -> "6" [] d = 7 -> "7"
              [] d = 8 -> "8" [] d = 9 -> "9"

\* %d of a non-negative int
RECURSIVE Decimal(_)
Decimal(n) == IF n < 10 THEN <<Digit(n)>>
              ELSE Decimal(n \div 10) \o <<Digit(n % 10)>>

\* printf("%s:%d:%s\n", filename, line_number, line)
FmtNumbered(filename, line_number, line) ==
    filename \o <<":">> \o Decimal(line_number) \o <<":">> \o line \o <<NL>>

\* printf("%s:%s\n", filename, line)
FmtPlain(filename, line) == filename \o <<":">> \o line \o <<NL>>

\* printf("Filename match: %s\n", filename)
FmtFilenameMatch(filename) ==
    <<"F","i","l","e","n","a","m","e"," ","m","a","t","c","h",":"," ">>
        \o filename \o <<NL>>

\* printf("%s\n", filename)
FmtPath(filename) == filename \o <<NL>>

-----------------------------------------------------------------------------
(* The file system: a chain of directories 0..TreeDepth below the start     *)
(* directory.  Directory i holds ".", "..", one regular file, one symlink   *)
(* to directory 0 (an ancestor), in directory 0 a fifo, and directory i+1.  *)

FileNames == << <<"a","b",".","c">>, <<"x",".","C">>, <<"b">> >>

FileName(i) == FileNames[(i % Len(FileNames)) + 1]

Pad(n, c) == [i \in 1..n |-> c]

\* the byte contents a regular file can have
Contents == <<
    <<"a", NL, "b">>,
    <<"a", "b", NL, "a", NL, "x", "b", NL>>,
    <<"x", NL>>,
    <<>>,
    Pad(MAX_LINE - 1, "x") \o <<"a", NL, "b", NL>> >>

Entry(name, kind, id) == [name |-> name, kind |-> kind, id |-> id]

\* what readdir returns for directory d, in order
Entries(d) ==
    << Entry(<<".">>, "dir", d),
       Entry(<<".", ".">>, "dir", IF d = 0 THEN 0 ELSE d - 1),
       Entry(FileName(d), "reg", d),
       Entry(<<"l">>, "lnk", d) >>
    \o (IF d = 0 THEN <<Entry(<<"p">>, "fifo", d)>> ELSE <<>>)
    \o (IF d < TreeDepth THEN <<Entry(<<"d">>, "dir", d + 1)>> ELSE <<>>)

NoFail == [op |-> "none", kind |-> "none", id |-> 0]

Failures ==
    { NoFail,
      [op |-> "fopen",   kind |-> "reg", id |-> 0],
      [op |-> "fstat",   kind |-> "reg", id |-> 0],
      [op |-> "lstat",   kind |-> "reg", id |-> 1],
      [op |-> "lstat",   kind |-> "dir", id |-> 1],
      [op |-> "opendir", kind |-> "dir", id |-> 1],
      [op |-> "opendir", kind |-> "dir", id |-> 0] }

Fails(op, e) == fs.fail.op = op /\ fs.fail.kind = e.kind /\ fs.fail.id = e.id

\* file i holds Contents[((v + i) % Len(Contents)) + 1]
MkFS(v, f) ==
    [content |-> [i \in 0..TreeDepth |-> ((v + i) % Len(Contents)) + 1],
     fail    |-> f]

FileSystems ==
    {MkFS(v, NoFail) : v \in 0..(Len(Contents) - 1)}
        \cup {MkFS(0, f) : f \in Failures}

\* the bytes fopen(e)/fgets read: a regular file's contents; nothing can be
\* read from a directory (through a symlink) or an idle fifo
Bytes(e) == IF e.kind = "reg" THEN Contents[fs.content[e.id]] ELSE <<>>

\* st_size reported by fstat
Size(e) == Len(Bytes(e))

\* classification with stat instead of lstat: a symlink is classified as
\* its target, a directory
ClassifyFollowing(e) == IF e.kind = "lnk" THEN "dir" ELSE e.kind

\* S_ISDIR / S_ISREG of the st_mode lstat reports: the link itself is
\* classified, not its target
Classify(e) == e.kind

\* the directory opendir opens for an entry: opendir follows symlinks, and
\* every symlink points to the start directory; -1 when the entry is no
\* directory
Resolve(e) ==
    CASE e.kind = "dir" -> e.id
      [] e.kind = "lnk" -> 0
      [] OTHER -> -1

-----------------------------------------------------------------------------
(* The SearchOptions handed to search_directory and search_file.  The walk  *)
(* reads every field, so every field is varied, also those for which        *)
(* parse_arguments has no switch (recursive, search_filenames,              *)
(* search_content, show_line_numbers).  keyword_count >= 1 always: main     *)
(* exits before the walk otherwise (lines 186-190).                         *)

KeywordLists ==
    { << <<"a">> >>,
      << <<"a">>, <<"b">> >>,
      << <<>> >>,
      << <<"B">> >> }

Patterns == { <<>>, <<"*", ".", "c">>, <<"B">> }

\* a start directory whose path leaves no room for longer entry names
LongStartDir == [i \in 1..(MAX_PATH - 5) |-> IF i % 2 = 1 THEN "." ELSE "/"]

StartDirs == { <<".">>, LongStartDir }

\* init_options
DefaultOptions ==
    [keywords |-> << <<"a">> >>,
     case_sensitive |-> TRUE,
     recursive |-> TRUE,
     search_filenames |-> TRUE,
     search_content |-> TRUE,
     show_line_numbers |-> TRUE,
     max_depth |-> -1,
     only_matching_files |-> FALSE,
     count_only |-> FALSE,
     min_size |-> 0,
     max_size |-> -1,
     file_pattern |-> <<>>,
     start_dir |-> <<".">>]

\* every combination of the matching and output flags with every keyword list
FlagOptions ==
    {[DefaultOptions EXCEPT !.keywords = kw, !.case_sensitive = cs,
                            !.search_filenames = sn, !.search_content = sc,
                            !.only_matching_files = om, !.count_only = co] :
        kw \in KeywordLists, cs \in BOOLEAN, sn \in BOOLEAN, sc \in BOOLEAN,
        om \in BOOLEAN, co \in BOOLEAN}

\* every combination of the filters
FilterOptions ==
    {[DefaultOptions EXCEPT !.min_size = mn, !.max_size = mx,
                            !.file_pattern = fp, !.only_matching_files = om,
                            !.show_line_numbers = ln] :
        mn \in {0, SizeLimit}, mx \in {-1, SizeLimit}, fp \in Patterns,
        om \in BOOLEAN, ln \in BOOLEAN}

\* every combination of recursive and max_depth, and every start directory
WalkOptions ==
    {[DefaultOptions EXCEPT !.recursive = rc, !.max_depth = md] :
        rc \in BOOLEAN, md \in -1..MaxDepthOpt}
    \cup {[DefaultOptions EXCEPT !.start_dir = sd] : sd \in StartDirs}

Options == FlagOptions \cup FilterOptions \cup WalkOptions

keyword_count == Len(opts.keywords)

-----------------------------------------------------------------------------
(* State *)

NoCall == [pc |-> "none"]

ZeroStats == [files_searched |-> 0, files_matched |-> 0,
              total_matches |-> 0, total_size |-> 0]

Init ==
    /\ opts \in Options
    /\ fs \in FileSystems
    /\ stats = ZeroStats
    /\ out = <<>>
    /\ stack = <<>>
    /\ sf = NoCall
    /\ pc = "start"
    /\ log = <<>>
    /\ dlog = <<>>
    /\ hist = [fopens |-> 0, fcloses |-> 0, dopens |-> 0, dcloses |-> 0,
               misuse |-> FALSE, dirs |-> <<>>, files |-> <<>>]

-----------------------------------------------------------------------------
(* Handles *)

\* fopen / opendir succeeded
Opened(h, which) ==
    [h EXCEPT ![which] = @ + 1]

\* fclose / closedir of a handle in state hs ("none", "open", "closed"):
\* closing a handle that is not open is a misuse
Closed(h, which, hs) ==
    [h EXCEPT ![which] = @ + 1, !.misuse = @ \/ hs # "open"]

\* fgets / readdir on a handle in state hs
Used(h, hs) == [h EXCEPT !.misuse = @ \/ hs # "open"]

-----------------------------------------------------------------------------
(* main, line 451: search_directory(opts.start_dir, 0, &opts, &stats) *)

DirFrame(path, depth, e) ==
    [path |-> path, depth |-> depth, dir |-> Resolve(e), entry |-> e,
     pc |-> "enter", idx |-> 0, dh |-> "none"]

Main ==
    /\ pc = "start"
    /\ pc' = "walk"
    /\ stack' = <<DirFrame(opts.start_dir, 0, Entry(opts.start_dir, "dir", 0))>>
    /\ UNCHANGED <<opts, fs, stats, out, sf, log, dlog, hist>>

-----------------------------------------------------------------------------
(* search_directory *)

Top == stack[Len(stack)]

SetTop(f) == [stack EXCEPT ![Len(stack)] = f]

\* return from the innermost search_directory invocation f
DirReturn(f) ==
    /\ stack' = SubSeq(stack, 1, Len(stack) - 1)
    /\ dlog' = Append(dlog, [dir |-> f.dir, depth |-> f.depth, dh |-> f.dh,
                             kind |-> f.entry.kind])
    /\ pc' = IF Len(stack) = 1 THEN "done" ELSE pc

\* the depth limit one level too early
DepthExceededEarly(depth) == opts.max_depth >= 0 /\ depth >= opts.max_depth

\* the depth limit, line 329
DepthExceeded(depth) == opts.max_depth >= 0 /\ depth > opts.max_depth

\* lines 326-336: the depth limit, then opendir
search_directory_enter ==
    /\ pc = "walk" /\ stack # <<>> /\ sf = NoCall
    /\ Top.pc = "enter"
    /\ IF DepthExceeded(Top.depth)
       THEN DirReturn(Top) /\ UNCHANGED hist
       ELSE IF Top.dir = -1 \/ Fails("opendir", Entry(<<>>, "dir", Top.dir))
       THEN DirReturn(Top) /\ UNCHANGED hist
       ELSE /\ stack' = SetTop([Top EXCEPT !.pc = "loop", !.dh = "open"])
            /\ hist' = [Opened(hist, "dopens") EXCEPT
                            !.dirs = Append(@, [dir |-> Top.dir,
                                                depth |-> Top.depth,
                                                kind |-> Top.entry.kind])]
            /\ UNCHANGED <<dlog, pc>>
    /\ UNCHANGED <<opts, fs, stats, out, sf, log>>

\* a new search_file invocation, line 367
FileFrame(filename, e) ==
    [pc |-> "fopen", filename |-> filename, entry |-> e, fh |-> "none",
     pos |-> 0, line_number |-> 0, line |-> <<>>, k |-> 0,
     match_in_file |-> FALSE,
     stats0 |-> stats, out0 |-> Len(out), searched |-> FALSE,
     reads |-> 0, tests |-> 0, incs |-> <<>>, hits |-> 0, emits |-> 0]

\* the entry is . or .., line 343
IsDots(e) == e.name = <<".">> \/ e.name = <<".", ".">>

\* the path would not fit, line 348
PathTooLong(path, e) == Len(path) + Len(e.name) + 2 > MAX_PATH

\* lines 341-372: one turn of the readdir loop, or closedir at its end
search_directory_readdir ==
    /\ pc = "walk" /\ stack # <<>> /\ sf = NoCall
    /\ Top.pc = "loop"
    /\ LET d == Top.dir
           more == Top.idx < Len(Entries(d))
           e == Entries(d)[Top.idx + 1]
           fullpath == Top.path \o <<"/">> \o e.name
           next == [Top EXCEPT !.idx = @ + 1]
       IN  IF ~more
           THEN /\ DirReturn([Top EXCEPT !.dh = "closed"])
                /\ hist' = Closed(hist, "dcloses", Top.dh)
                /\ UNCHANGED sf
           ELSE IF IsDots(e) \/ PathTooLong(Top.path, e) \/ Fails("lstat", e)
           THEN /\ stack' = SetTop(next)
                /\ hist' = Used(hist, Top.dh)
                /\ UNCHANGED <<sf, dlog, pc>>
           ELSE IF Classify(e) = "dir"
           THEN /\ stack' = IF opts.recursive
                            THEN Append(SetTop(next),
                                        DirFrame(fullpath, Top.depth + 1, e))
                            ELSE SetTop(next)
                /\ hist' = Used(hist, Top.dh)
                /\ UNCHANGED <<sf, dlog, pc>>
           ELSE IF Classify(e) = "reg"
           THEN /\ stack' = SetTop(next)
                /\ sf' = FileFrame(fullpath, e)
                /\ hist' = [Used(hist, Top.dh) EXCEPT
                                !.files = Append(@, [entry |-> e,
                                                     depth |-> Top.depth])]
                /\ UNCHANGED <<dlog, pc>>
           ELSE /\ stack' = SetTop(next)
                /\ hist' = Used(hist, Top.dh)
                /\ UNCHANGED <<sf, dlog, pc>>
    /\ UNCHANGED <<opts, fs, stats, out, log>>

-----------------------------------------------------------------------------
(* search_file *)

\* return ret from the search_file invocation f with the statistics st and
\* the output o
FileReturn(f, ret, st, o) ==
    /\ sf' = NoCall
    /\ stats' = st
    /\ out' = o
    /\ log' = Append(log,
                [entry |-> f.entry, filename |-> f.filename, ret |-> ret,
                 fh |-> f.fh, searched |-> f.searched,
                 match_in_file |-> f.match_in_file,
                 files_searched |-> st.files_searched - f.stats0.files_searched,
                 files_matched |-> st.files_matched - f.stats0.files_matched,
                 total_matches |-> st.total_matches - f.stats0.total_matches,
                 total_size |-> st.total_size - f.stats0.total_size,
                 output |-> SubSeq(o, f.out0 + 1, Len(o)),
                 reads |-> f.reads, tests |-> f.tests, incs |-> f.incs,
                 line_number |-> f.line_number, pos |-> f.pos,
                 line |-> f.line, k |-> f.k])

\* the size filter with the bounds excluded
SizeRejectedStrict(size) ==
    \/ opts.min_size > 0 /\ size <= opts.min_size
    \/ opts.max_size >= 0 /\ size >= opts.max_size

\* the size filter, lines 224-225
SizeRejected(size) ==
    \/ opts.min_size > 0 /\ size < opts.min_size
    \/ opts.max_size >= 0 /\ size > opts.max_size

\* the filename-pattern filter, line 232
PatternRejected(filename) ==
    At(opts.file_pattern, 1) # NUL
        /\ ~matches_pattern(filename, opts.file_pattern)

\* lines 214-237: fopen, fstat, the two filters, files_searched++
search_file_fopen ==
    /\ sf.pc = "fopen"
    /\ LET e == sf.entry
           fstat_ok == ~Fails("fstat", e)
           sized == IF fstat_ok
                    THEN [stats EXCEPT !.total_size = @ + Size(e)]
                    ELSE stats
           opened == [sf EXCEPT !.fh = "open"]
           closed == [sf EXCEPT !.fh = "closed"]
       IN  IF Fails("fopen", e)
           THEN FileReturn(sf, FALSE, stats, out) /\ UNCHANGED hist
           ELSE IF (fstat_ok /\ SizeRejected(Size(e)))
                    \/ PatternRejected(sf.filename)
           THEN /\ FileReturn(closed, FALSE, sized, out)
                /\ hist' = Closed(Opened(hist, "fopens"), "fcloses", "open")
           ELSE /\ sf' = [opened EXCEPT !.searched = TRUE,
                              !.pc = IF opts.search_content
                                     THEN "fgets" ELSE "fclose"]
                /\ stats' = [sized EXCEPT !.files_searched = @ + 1]
                /\ hist' = Opened(hist, "fopens")
                /\ UNCHANGED <<out, log>>
    /\ UNCHANGED <<opts, fs, stack, pc, dlog>>

\* lines 245-249: fgets, line_number++, strip the newline
search_file_fgets ==
    /\ sf.pc = "fgets"
    /\ \E n \in {fgets_len(Bytes(sf.entry), sf.pos)} :
       \E chunk \in {SubSeq(Bytes(sf.entry), sf.pos + 1, sf.pos + n)} :
       \E stripped \in {StripNewline(chunk)} :
           sf' = IF n = 0
                 THEN [sf EXCEPT !.pc = "fclose"]
                 ELSE [sf EXCEPT !.pos = @ + n,
                                 !.line_number = @ + 1,
                                 !.line = stripped,
                                 !.k = 0,
                                 !.reads = @ + 1,
                                 !.hits = 0,
                                 !.emits = 0,
                                 !.pc = IF keyword_count > 0
                                        THEN "keyword" ELSE "fgets"]
    /\ hist' = Used(hist, sf.fh)
    /\ UNCHANGED <<opts, fs, stats, out, stack, pc, log, dlog>>

\* names-only mode without the early return of lines 273-278
EarlyExitNever == FALSE

\* line 273: a content match ends the scan of the file
EarlyExit == opts.only_matching_files

\* lines 252-280: one turn of the keyword loop over the current line
search_file_keyword ==
    /\ sf.pc = "keyword"
    /\ LET found == KeywordFound(sf.line, opts.keywords[sf.k + 1])
           counted == [stats EXCEPT !.total_matches = @ + 1]
           printed ==
               IF ~opts.count_only /\ ~opts.only_matching_files
               THEN Append(out,
                        IF opts.show_line_numbers
                        THEN FmtNumbered(sf.filename, sf.line_number, sf.line)
                        ELSE FmtPlain(sf.filename, sf.line))
               ELSE out
           tested == [sf EXCEPT !.tests = @ + 1, !.k = @ + 1,
                                !.pc = IF sf.k + 1 < keyword_count
                                       THEN "keyword" ELSE "fgets"]
       IN  IF ~found
           THEN sf' = tested /\ UNCHANGED <<stats, out, log, hist>>
           ELSE IF EarlyExit
           THEN /\ FileReturn([tested EXCEPT !.match_in_file = TRUE,
                                             !.fh = "closed",
                                             !.hits = @ + 1,
                                             !.incs = Append(@, "early")],
                              TRUE,
                              [counted EXCEPT !.files_matched = @ + 1],
                              printed)
                /\ hist' = Closed(hist, "fcloses", sf.fh)
           ELSE /\ sf' = [tested EXCEPT !.match_in_file = TRUE,
                                         !.hits = @ + 1,
                                         !.emits = @ + Len(printed) - Len(out)]
                /\ stats' = counted
                /\ out' = printed
                /\ UNCHANGED <<log, hist>>
    /\ UNCHANGED <<opts, fs, stack, pc, dlog>>

\* the content search without the fclose of line 284
search_file_fclose_forgotten ==
    /\ sf.pc = "fclose"
    /\ sf' = [sf EXCEPT !.pc = "filename"]
    /\ UNCHANGED <<opts, fs, stats, out, stack, pc, log, dlog, hist>>

\* line 284: fclose after the content search
search_file_fclose ==
    /\ sf.pc = "fclose"
    /\ sf' = [sf EXCEPT !.fh = "closed", !.pc = "filename"]
    /\ hist' = Closed(hist, "fcloses", sf.fh)
    /\ UNCHANGED <<opts, fs, stats, out, stack, pc, log, dlog>>

\* the filename search without the return of line 308: a filename match falls
\* through to the count of lines 313-318
search_file_filename_fallthrough ==
    /\ sf.pc = "filename"
    /\ LET hit == \E k \in 1..keyword_count :
                      KeywordFound(Basename(sf.filename), opts.keywords[k])
       IN  IF opts.search_filenames /\ hit
           THEN /\ sf' = [sf EXCEPT !.pc = "finish", !.match_in_file = TRUE,
                                    !.incs = Append(@, "filename")]
                /\ stats' = [stats EXCEPT !.total_matches = @ + 1,
                                          !.files_matched = @ + 1]
                /\ out' = IF ~opts.count_only
                          THEN Append(out, FmtFilenameMatch(sf.filename))
                          ELSE out
                /\ UNCHANGED log
           ELSE /\ sf' = [sf EXCEPT !.pc = "finish"]
                /\ UNCHANGED <<stats, out, log>>
    /\ UNCHANGED <<opts, fs, stack, pc, dlog, hist>>

\* lines 287-311: the filename search
search_file_filename ==
    /\ sf.pc = "filename"
    /\ LET basename == Basename(sf.filename)
           hit == \E k \in 1..keyword_count :
                      KeywordFound(basename, opts.keywords[k])
       IN  IF opts.search_filenames /\ ~sf.match_in_file /\ hit
           THEN FileReturn([sf EXCEPT !.match_in_file = TRUE,
                                      !.incs = Append(@, "filename")],
                           TRUE,
                           [stats EXCEPT !.total_matches = @ + 1,
                                         !.files_matched = @ + 1],
                           IF ~opts.count_only
                           THEN Append(out, FmtFilenameMatch(sf.filename))
                           ELSE out)
           ELSE /\ sf' = [sf EXCEPT !.pc = "finish"]
                /\ UNCHANGED <<stats, out, log>>
    /\ UNCHANGED <<opts, fs, stack, pc, dlog, hist>>

\* lines 313-320: count a file that matched in its content, and return
search_file_finish ==
    /\ sf.pc = "finish"
    /\ IF sf.match_in_file
       THEN FileReturn([sf EXCEPT !.incs = Append(@, "generic")],
                       TRUE,
                       [stats EXCEPT !.files_matched = @ + 1],
                       IF opts.only_matching_files /\ ~opts.count_only
                       THEN Append(out, FmtPath(sf.filename))
                       ELSE out)
       ELSE FileReturn(sf, FALSE, stats, out)
    /\ UNCHANGED <<opts, fs, stack, pc, dlog, hist>>

-----------------------------------------------------------------------------

Next ==
    \/ Main
    \/ search_directory_enter
    \/ search_directory_readdir
    \/ search_file_fopen
    \/ search_file_fgets
    \/ search_file_keyword
    \/ search_file_fclose
    \/ search_file_filename
    \/ search_file_finish

Spec == Init /\ [][Next]_vars

\* the walk is one sequential thread: it keeps running until main returns
FairSpec == Spec /\ WF_vars(Next)

-----------------------------------------------------------------------------
(* Reference notions the properties are stated with *)

\* the lines of a file: the text between line terminators
RECURSIVE Lines(_)
Lines(bytes) ==
    IF bytes = <<>> THEN <<>>
    ELSE LET nls == {i \in 1..Len(bytes) : bytes[i] = NL}
         IN  IF nls = {} THEN <<bytes>>
             ELSE <<SubSeq(bytes, 1, Min(nls) - 1)>>
                      \o Lines(SubSeq(bytes, Min(nls) + 1, Len(bytes)))

\* the lines of every contents a file can have
ContentLines == [c \in 1..Len(Contents) |-> Lines(Contents[c])]

\* the lines of the file behind a directory entry
LinesOf(e) == IF e.kind = "reg" THEN ContentLines[fs.content[e.id]] ELSE <<>>

\* some configured keyword occurs in the text
AnyKeyword(text) ==
    \E k \in 1..keyword_count : KeywordFound(text, opts.keywords[k])

\* some line of the file contains some configured keyword
ContentHit(e) ==
    \E i \in 1..Len(LinesOf(e)) : AnyKeyword(LinesOf(e)[i])

\* the offset just behind the first line that contains a keyword
RECURSIVE FirstHitEnd(_, _)
FirstHitEnd(bytes, pos) ==
    LET rest == SubSeq(bytes, pos + 1, Len(bytes))
        nls == {i \in 1..Len(rest) : rest[i] = NL}
        len == IF nls = {} THEN Len(rest) ELSE Min(nls)
    IN  IF rest = <<>> \/ AnyKeyword(StripNewline(SubSeq(rest, 1, len)))
        THEN pos + len
        ELSE FirstHitEnd(bytes, pos + len)

\* the finished search_file invocations
Calls == {log[i] : i \in 1..Len(log)}

\* the scan found the file to match: it passed the filters and an enabled
\* search (content, filename) hits
Matches(r) ==
    /\ r.searched
    /\ \/ opts.search_content /\ ContentHit(r.entry)
       \/ opts.search_filenames /\ AnyKeyword(r.entry.name)

-----------------------------------------------------------------------------
(* C1: every search_file invocation adds at most 1 to files_matched, and    *)
(* exactly 1 when the scanned file matches in its content, in its filename  *)
(* or in both, whatever the options; at most one of the three increment     *)
(* sites (early exit, filename match, generic content match) fires, and     *)
(* files_matched moves only at the return of an invocation.                 *)
C1_ExactlyOnceCounting ==
    /\ \A r \in Calls :
        LET matches == Matches(r)
        IN  /\ r.files_matched = IF matches THEN 1 ELSE 0
            /\ Len(r.incs) = r.files_matched
            /\ r.ret = matches
    /\ sf # NoCall => stats.files_matched = sf.stats0.files_matched
    /\ sf = NoCall =>
        stats.files_matched = Cardinality({i \in 1..Len(log) : Matches(log[i])})

\* a file that matches in its content and in its filename was counted once
C1_Witness ==
    \E r \in Calls :
        /\ r.searched /\ opts.search_content /\ opts.search_filenames
        /\ ContentHit(r.entry) /\ AnyKeyword(r.entry.name)
        /\ r.files_matched = 1

(* C3: in names-only mode the first content match ends the scan of the      *)
(* file: the file is closed, nothing behind the first matching line is      *)
(* read, the keyword test that hit is the last one made, the file adds      *)
(* exactly 1 to total_matches and to files_matched, and search_file         *)
(* returns true from the early exit, not from the filename search.          *)
C3_NamesOnlyEarlyExit ==
    /\ \A r \in Calls :
        (opts.only_matching_files /\ opts.search_content /\ r.searched
            /\ ContentHit(r.entry)) =>
            /\ r.ret /\ r.fh = "closed"
            /\ r.incs = <<"early">>
            /\ r.total_matches = 1 /\ r.files_matched = 1
            /\ r.pos <= FirstHitEnd(Bytes(r.entry), 0)
            /\ KeywordFound(r.line, opts.keywords[r.k])
            /\ r.tests = (r.reads - 1) * keyword_count + r.k
    /\ (opts.only_matching_files /\ sf # NoCall) =>
            /\ ~sf.match_in_file
            /\ stats.total_matches = sf.stats0.total_matches

\* names-only mode, a file with two matching lines: the scan stopped after
\* the first line
C3_Witness ==
    \E r \in Calls :
        /\ opts.only_matching_files /\ r.incs = <<"early">>
        /\ Cardinality({i \in 1..Len(LinesOf(r.entry)) :
                            AnyKeyword(LinesOf(r.entry)[i])}) >= 2
        /\ r.reads = 1 /\ r.total_matches = 1


\* the size filter: min_size <= size, and size <= max_size when max_size is
\* non-negative
PassesSize(size) ==
    opts.min_size <= size /\ (opts.max_size >= 0 => size <= opts.max_size)

\* the filename-pattern filter
PassesPattern(r) ==
    opts.file_pattern = <<>> \/ matches_pattern(r.filename, opts.file_pattern)

\* the sum of F over a sequence
RECURSIVE Sum(_)
Sum(seq) == IF seq = <<>> THEN 0 ELSE Head(seq) + Sum(Tail(seq))

SumOver(seq, F(_)) == Sum([i \in 1..Len(seq) |-> F(seq[i])])

(* C4 as stated: total_size is the sum of the sizes of all files that were  *)
(* opened; files_searched counts only the files that passed the size        *)
(* filter and the pattern filter; a rejected file adds its size to          *)
(* total_size, leaves the other counters unchanged and emits nothing.       *)
C4_SizeAccounting_AsStated ==
    /\ \A r \in Calls :
        LET size == Size(r.entry)
            opened == r.fh # "none"
            passes == PassesSize(size) /\ PassesPattern(r)
        IN  /\ r.total_size = IF opened THEN size ELSE 0
            /\ r.files_searched = IF opened /\ passes THEN 1 ELSE 0
            /\ (opened /\ ~passes) =>
                    /\ r.files_matched = 0 /\ r.total_matches = 0
                    /\ r.output = <<>>
    /\ pc = "done" =>
        LET OpenedSize(r) == IF r.fh # "none" THEN Size(r.entry) ELSE 0
            Passed(r) == IF r.fh # "none" /\ PassesSize(Size(r.entry))
                            /\ PassesPattern(r) THEN 1 ELSE 0
        IN  /\ stats.total_size = SumOver(log, OpenedSize)
            /\ stats.files_searched = SumOver(log, Passed)

(* C4 amended: total_size is the sum of the sizes of all opened files whose *)
(* size fstat delivered; files_searched counts the opened files that        *)
(* passed the size filter (not applied to a file whose fstat failed) and    *)
(* the pattern filter; a rejected file adds its size to total_size, leaves  *)
(* files_searched, files_matched and total_matches unchanged and emits      *)
(* nothing.                                                                 *)
C4_SizeAccounting ==
    /\ \A r \in Calls :
        LET size == Size(r.entry)
            opened == r.fh # "none"
            sized == opened /\ ~Fails("fstat", r.entry)
            passes == (sized => PassesSize(size)) /\ PassesPattern(r)
        IN  /\ r.total_size = IF sized THEN size ELSE 0
            /\ r.files_searched = IF opened /\ passes THEN 1 ELSE 0
            /\ (opened /\ ~passes) =>
                    /\ r.files_matched = 0 /\ r.total_matches = 0
                    /\ r.output = <<>>
    /\ pc = "done" =>
        LET SizedSize(r) == IF r.fh # "none" /\ ~Fails("fstat", r.entry)
                            THEN Size(r.entry) ELSE 0
            Passed(r) == IF r.fh # "none"
                            /\ (~Fails("fstat", r.entry)
                                    => PassesSize(Size(r.entry)))
                            /\ PassesPattern(r) THEN 1 ELSE 0
        IN  /\ stats.total_size = SumOver(log, SizedSize)
            /\ stats.files_searched = SumOver(log, Passed)

\* after a walk with a minimum size, a smaller file was opened, counted in
\* total_size and not searched, and another file was searched
C4_Witness ==
    /\ pc = "done"
    /\ \E r \in Calls :
        /\ r.fh = "closed" /\ Size(r.entry) > 0
        /\ opts.min_size > Size(r.entry)
        /\ r.total_size = Size(r.entry) /\ r.files_searched = 0
    /\ stats.files_searched > 0

-----------------------------------------------------------------------------
(* What the walk is expected to reach *)

\* length of the path of directory d: each level appends "/d"
PathLen(d) == Len(opts.start_dir) + 2 * d

\* the path of an entry of directory d fits into MAX_PATH
Fits(d, name) == PathLen(d) + Len(name) + 2 <= MAX_PATH

\* directory d can be opened and lies within the depth limit, and so does
\* every directory above it
RECURSIVE Visitable(_)
Visitable(d) ==
    /\ opts.max_depth < 0 \/ d <= opts.max_depth
    /\ ~Fails("opendir", Entry(<<>>, "dir", d))
    /\ d > 0 =>
        /\ Visitable(d - 1)
        /\ opts.recursive
        /\ Fits(d - 1, <<"d">>)
        /\ ~Fails("lstat", Entry(<<>>, "dir", d))

\* the regular file of directory d can be reached and opened
Scannable(d) ==
    /\ Visitable(d)
    /\ Fits(d, FileName(d))
    /\ ~Fails("lstat", Entry(<<>>, "reg", d))
    /\ ~Fails("fopen", Entry(<<>>, "reg", d))

\* the search_file invocations that opened the regular file of directory d
ScansOf(d) ==
    {i \in 1..Len(log) : log[i].entry = Entry(FileName(d), "reg", d)
                            /\ log[i].fh # "none"}

(* C5: with max_depth = N >= 0 no directory deeper than N below the start   *)
(* directory is opened and no file inside one is scanned, while every       *)
(* regular file directly inside a directory of depth <= N that the walk     *)
(* can reach and open is scanned; with max_depth = 0 only the start         *)
(* directory is entered; a negative max_depth does not bound the depth.     *)
C5_DepthLimit ==
    /\ opts.max_depth >= 0 =>
        /\ \A i \in 1..Len(hist.dirs) : hist.dirs[i].depth <= opts.max_depth
        /\ \A i \in 1..Len(hist.files) : hist.files[i].depth <= opts.max_depth
    /\ opts.max_depth = 0 =>
        \A i \in 1..Len(hist.dirs) : hist.dirs[i].dir = 0
    /\ pc = "done" =>
        \A d \in 0..TreeDepth : Scannable(d) => Cardinality(ScansOf(d)) = 1

\* a walk with max_depth = 1 over a deeper tree: the file at depth 1 was
\* scanned, the directory at depth 2 was called and returned unopened
C5_Witness ==
    /\ pc = "done" /\ opts.max_depth = 1
    /\ ScansOf(1) # {}
    /\ \E i \in 1..Len(dlog) : dlog[i].depth = 2 /\ dlog[i].dh = "none"
    /\ \A i \in 1..Len(hist.files) : hist.files[i].depth <= 1

\* no symlink (and nothing but a directory) is recursed into, nothing but a
\* regular file is passed to search_file, every directory is entered at most
\* once and every regular file is scanned at most once
C6_SymlinkSafe ==
    /\ \A i \in 1..Len(stack) :
        /\ stack[i].entry.kind = "dir"
        /\ i > 1 => ~IsDots(stack[i].entry)
    /\ \A i \in 1..Len(hist.dirs) : hist.dirs[i].kind = "dir"
    /\ \A i, j \in 1..Len(hist.dirs) :
        i # j => hist.dirs[i].dir # hist.dirs[j].dir
    /\ \A i \in 1..Len(hist.files) : hist.files[i].entry.kind = "reg"
    /\ \A i, j \in 1..Len(hist.files) :
        i # j => hist.files[i].entry # hist.files[j].entry

(* C6: the walk terminates on the tree, which holds a symlink to an         *)
(* ancestor in every directory; an entry classified as a symlink is never   *)
(* recursed into and never passed to search_file, so every directory is     *)
(* entered at most once and every regular file is scanned at most once.     *)
C6_SymlinkSafetyAndTermination == <>(pc = "done") /\ []C6_SymlinkSafe

\* the walk ended after enumerating a subdirectory, whose entries include a
\* symlink to the start directory
C6_Witness ==
    /\ pc = "done"
    /\ \E i \in 1..Len(dlog) : dlog[i].depth >= 1 /\ dlog[i].dh = "closed"

(* C10: every file handle and every directory handle is closed exactly once *)
(* before the function that opened it returns, on every exit path; no       *)
(* handle is closed twice or used when not open; at most one file handle is *)
(* open at any moment; the open directory handles are those of the active   *)
(* search_directory invocations that have passed opendir, that is all of    *)
(* them except possibly the innermost one before its opendir; no handle is  *)
(* open when the walk has returned.                                         *)
C10_ScopedHandles ==
    /\ ~hist.misuse
    /\ \A r \in Calls : r.fh \in {"none", "closed"}
    /\ \A i \in 1..Len(dlog) : dlog[i].dh \in {"none", "closed"}
    /\ hist.fopens - hist.fcloses =
            IF sf # NoCall /\ sf.fh = "open" THEN 1 ELSE 0
    /\ sf # NoCall => sf.fh \in {"none", "open", "closed"}
    /\ hist.dopens - hist.dcloses =
            Cardinality({i \in 1..Len(stack) : stack[i].dh = "open"})
    /\ \A i \in 1..Len(stack) :
        stack[i].dh = IF i < Len(stack) \/ stack[i].pc = "loop"
                      THEN "open" ELSE "none"
    /\ sf # NoCall => hist.dopens - hist.dcloses = Len(stack)
    /\ pc = "done" =>
        /\ stack = <<>> /\ sf = NoCall
        /\ hist.fopens = hist.fcloses /\ hist.dopens = hist.dcloses

\* a finished walk that opened and closed nested directories and files, with
\* a depth-limit return among the exit paths
C10_Witness ==
    /\ pc = "done"
    /\ hist.fcloses >= 2 /\ hist.dcloses >= 2
    /\ \E i \in 1..Len(dlog) : dlog[i].dh = "none"

-----------------------------------------------------------------------------
(* Statements the code does not meet *)

(* C2: in names-only mode without count-only, a file with at least one      *)
(* matching content line produces exactly one line of output, its bare      *)
(* path, and no per-line record.                                            *)
C2_NamesOnlyOutput ==
    \A r \in Calls :
        (opts.only_matching_files /\ ~opts.count_only /\ opts.search_content
            /\ r.searched /\ ContentHit(r.entry)) =>
            r.output = <<FmtPath(r.filename)>>

(* C7: an empty keyword never matches, case-sensitively or not: a walk      *)
(* whose only keyword is the empty string counts no match and no matched    *)
(* file and emits nothing.                                                  *)
C7_EmptyKeywordNeverMatches ==
    opts.keywords = << <<>> >> =>
        /\ stats.total_matches = 0
        /\ stats.files_matched = 0
        /\ out = <<>>

(* C8: outside names-only mode every line with at least one configured      *)
(* keyword adds exactly 1 to total_matches and, unless count-only, emits    *)
(* exactly one record, however many keywords occur in it.                   *)
C8_OneMatchPerLine ==
    (sf # NoCall /\ ~opts.only_matching_files /\ sf.reads > 0) =>
        /\ sf.hits <= 1
        /\ sf.emits <= 1
        /\ sf.pc = "fgets" =>
            /\ sf.hits = IF AnyKeyword(sf.line) THEN 1 ELSE 0
            /\ sf.emits = IF opts.count_only THEN 0 ELSE sf.hits

\* a line cut to the line-length bound: fgets stores at most MAX_LINE - 1
\* characters
Truncated(line) ==
    IF Len(line) > MAX_LINE - 1 THEN SubSeq(line, 1, MAX_LINE - 1) ELSE line

\* the record of line i of the file scanned by r
RecordOf(r, i) ==
    IF opts.show_line_numbers
    THEN FmtNumbered(r.filename, i, Truncated(LinesOf(r.entry)[i]))
    ELSE FmtPlain(r.filename, Truncated(LinesOf(r.entry)[i]))

(* C9: a line longer than the bound is processed as one line cut to the     *)
(* bound: it counts for one line number, what lies beyond the bound is      *)
(* neither tested nor emitted, and every emitted record carries the         *)
(* 1-based position of its line in the file and that line's text.           *)
C9_LongLinesTruncated ==
    \A r \in Calls :
        (opts.search_content /\ r.searched /\ ~opts.only_matching_files) =>
            /\ r.line_number = Len(LinesOf(r.entry))
            /\ \A n \in 1..Len(r.output) :
                \/ r.output[n] = FmtFilenameMatch(r.filename)
                \/ \E i \in 1..Len(LinesOf(r.entry)) :
                    /\ r.output[n] = RecordOf(r, i)
                    /\ AnyKeyword(Truncated(LinesOf(r.entry)[i]))

=============================================================================
